---- MODULE Spec2Model ----
(***************************************************************************)
(* Model of the particle system driver of particles.js (first variant,     *)
(* lines 1-394): the page-load handler, initParticleSystem, resizeCanvas,  *)
(* createParticleBuffers with the slider listeners it registers,           *)
(* startAnimation and its frame callback.                                  *)
(*                                                                         *)
(* Time is in milliseconds (0.033 s = 33).  A GPU buffer is named by its   *)
(* index in gpuBuffers, a depth texture by its index in gpuTextures, and 0 *)
(* stands for null.  The epoch of a particle buffer counts the kernel      *)
(* dispatches that have rewritten its contents since it was seeded.        *)
(***************************************************************************)
EXTENDS Integers, Sequences, FiniteSets, TLC

VARIABLES
    navigatorGpu,    \* whether navigator.gpu exists
    phase,           \* position of the load handler
    window,          \* <<innerWidth*dpr, innerHeight*dpr>>
    sliders,         \* values of the three range inputs
    listeners,       \* number of registered listeners per event
    particleSystem,  \* the global particleSystem object
    gpuBuffers,      \* every buffer the device ever created
    gpuTextures,     \* every depth texture the device ever created
    uniformData,     \* contents of particleSystem.uniformBuffer
    pending,         \* createParticleBuffers calls awaiting fetch
    rafQueue,        \* callbacks armed by requestAnimationFrame
    nextFrameId,     \* next handle requestAnimationFrame returns
    now,             \* performance.now() in ms
    lastTick,        \* what the most recent frame() did
    lastEvent,       \* what the most recent control event did
    events,          \* number of control events delivered so far
    lane,            \* one invocation of computeMain, step by step
    grid             \* the invocations of one dispatch, running concurrently

vars == <<grid, lane, navigatorGpu, phase, window, sliders, listeners,
          particleSystem, gpuBuffers, gpuTextures, uniformData, pending,
          rafQueue, nextFrameId, now, lastTick, lastEvent, events>>

(***************************************************************************)
(* Bounds of the model.                                                    *)
(***************************************************************************)
MaxNow == 70
MaxHandlers == 2
MaxEvents == 3
KernelParticles == 5
GridLanes == 3

Deltas == {20, 50}
LiveDeltas == {50}
LiveStrengthValues == {2}
LiveViewports == {<<2, 1>>}
CountValues == {100, 2048}
StrengthValues == {1, 2}
Viewports == {<<4, 3>>, <<2, 1>>}

(***************************************************************************)
(* Program constants.                                                      *)
(***************************************************************************)
InitialParticleCount == 1024
MaxDt == 33
InitialDt == 16
NumCylinders == 3
WorkgroupSize == 64
FloatBytes == 4
CylinderFloats == 15
UniformFloats == 12
AspectOffset == 12
RepulsionOffset == 32
AttractionOffset == 36
Vec3Align == 16
Vec3Size == 12
VerticesPerQuad == 6

\* kernel lengths are in units of 0.00005 (0.0001 = 2, 1.0 = 20000), and the
\* softening term, a squared length, in squared units
Guard == 2
RepulsionRange1 == 16000
RepulsionRange2 == 10000
Softening == 40000000
SampleRate1 == 1
SampleRate2 == 4
TargetDist1 == 0
TargetDist2 == 1000
GradientEps == 200
CylinderRadius == 20000
CylinderHeight == 40000
NormalWeightScale == 5
NearestSentinel == 20000000

Min(a, b) == IF a < b THEN a ELSE b

RECURSIVE Gcd(_, _)
Gcd(a, b) == IF b = 0 THEN a ELSE Gcd(b, a % b)

\* canvas.width / canvas.height as a fraction in lowest terms
AspectRatio(canvas) ==
    LET g == Gcd(canvas[1], canvas[2])
    IN  <<canvas[1] \div g, canvas[2] \div g>>

NullCanvas == <<0, 0>>
NullBuffers == [position |-> 0, velocity |-> 0, color |-> 0, cylinder |-> 0]
NullBindGroup == [layout |-> 0, b0 |-> 0, b1 |-> 0, b2 |-> 0, b3 |-> 0, b4 |-> 0]
NullUniformData == [i \in 1..UniformFloats |-> 0]
NoTick == [ran |-> FALSE, threw |-> FALSE, steps |-> <<>>, rawDelta |-> 0,
           dt |-> 0, time |-> 0, sumDt |-> 0, sumRaw |-> 0, groups |-> 0,
           drawCount |-> 0, compute |-> NullBindGroup,
           render |-> NullBindGroup, reconfiguring |-> FALSE,
           armedAfter |-> 0, arrayLength |-> 0]
Origins == {"init", "count"}
NoPending == [init |-> 0, count |-> 0]
InitialSliders == [count |-> 100, repulsion |-> 1, attraction |-> 1]
NoEvent == [kind |-> "none", reconfigs |-> 0, writes |-> 0]

\* the particleSystem literal
InitialParticleSystem ==
    [device |-> FALSE, canvas |-> NullCanvas,
     pipelines |-> [compute |-> 0, render |-> 0],
     buffers |-> NullBuffers,
     bindGroups |-> [compute |-> NullBindGroup, render |-> NullBindGroup],
     uniformBuffer |-> 0, depthTexture |-> 0,
     particleCount |-> InitialParticleCount,
     running |-> FALSE, frameId |-> 0]

(***************************************************************************)
(* Device operations.                                                      *)
(***************************************************************************)
\* a destroy() that releases nothing
DestroyBufferLeaked(bufs, id) == bufs

\* GPUBuffer.destroy(): the allocation and its contents are released
DestroyBuffer(bufs, id) ==
    [bufs EXCEPT ![id].destroyed = TRUE, ![id].epoch = 0]

\* GPUDevice.createBuffer({size}); the new buffer is Len + 1
CreateBuffer(bufs, kind, size) ==
    Append(bufs, [kind |-> kind, size |-> size, destroyed |-> FALSE,
                  epoch |-> 0])

\* GPUTexture.destroy() followed by createTexture({size})
RecreateTexture(texs, old, size) ==
    LET t == IF old # 0
             THEN [texs EXCEPT ![old] = [size |-> NullCanvas,
                                         destroyed |-> TRUE]]
             ELSE texs
    IN  Append(t, [size |-> size, destroyed |-> FALSE])

\* queue.writeBuffer(buffer, offset, Float32Array(data)) on the contents
WriteBuffer(contents, offset, data) ==
    LET first == offset \div FloatBytes
    IN  [i \in 1..UniformFloats |->
            IF i - 1 >= first /\ i - 1 < first + Len(data)
            THEN data[i - first] ELSE contents[i]]

(***************************************************************************)
(* The mutable world the handlers act on, as one record, so that a handler *)
(* that calls another is the composition of their effects.                 *)
(***************************************************************************)
World ==
    [ps |-> particleSystem, bufs |-> gpuBuffers, texs |-> gpuTextures,
     uni |-> uniformData, pend |-> pending, lis |-> listeners,
     raf |-> rafQueue, nextId |-> nextFrameId]

Commit(w) ==
    /\ particleSystem' = w.ps
    /\ gpuBuffers' = w.bufs
    /\ gpuTextures' = w.texs
    /\ uniformData' = w.uni
    /\ pending' = w.pend
    /\ listeners' = w.lis
    /\ rafQueue' = w.raf
    /\ nextFrameId' = w.nextId

\* resizeCanvas writing height / width
resizeCanvasInverted(w, win) ==
    LET canvas == win
        uni == IF w.ps.uniformBuffer # 0
               THEN WriteBuffer(w.uni, AspectOffset,
                                <<AspectRatio(<<canvas[2], canvas[1]>>)>>)
               ELSE w.uni
        texs == RecreateTexture(w.texs, w.ps.depthTexture, canvas)
    IN  [w EXCEPT !.ps.canvas = canvas,
                  !.uni = uni,
                  !.texs = texs,
                  !.ps.depthTexture = Len(texs)]

\* resizeCanvas, particles.js 35-61
resizeCanvas(w, win) ==
    LET canvas == win
        uni == IF w.ps.uniformBuffer # 0
               THEN WriteBuffer(w.uni, AspectOffset, <<AspectRatio(canvas)>>)
               ELSE w.uni
        texs == RecreateTexture(w.texs, w.ps.depthTexture, canvas)
    IN  [w EXCEPT !.ps.canvas = canvas,
                  !.uni = uni,
                  !.texs = texs,
                  !.ps.depthTexture = Len(texs)]

\* the uniformData literal, particles.js 189-199
InitialUniformData(canvas, sl) ==
    <<<<"lit", 0>>, <<"lit", 0>>, <<"lit", -10>>, AspectRatio(canvas),
      0, InitialDt, NumCylinders, 0,
      sl.repulsion, sl.attraction, 0, 0>>

\* createParticleBuffers up to its await, particles.js 86-215
createParticleBuffersSync(w, sl, origin) ==
    LET ps == w.ps
        n == ps.particleCount
        bytes == n * 3 * FloatBytes
        old == ps.buffers
        d1 == IF old # NullBuffers
              THEN LET a == DestroyBuffer(w.bufs, old.position)
                       b == DestroyBuffer(a, old.velocity)
                       c == DestroyBuffer(b, old.color)
                   IN  IF old.cylinder # 0
                       THEN DestroyBuffer(c, old.cylinder) ELSE c
              ELSE w.bufs
        base == Len(d1)
        c1 == CreateBuffer(d1, "position", bytes)
        c2 == CreateBuffer(c1, "velocity", bytes)
        c3 == CreateBuffer(c2, "color", bytes)
        c4 == CreateBuffer(c3, "cylinder", CylinderFloats * FloatBytes)
        d2 == IF ps.uniformBuffer # 0
              THEN DestroyBuffer(c4, ps.uniformBuffer) ELSE c4
        c5 == CreateBuffer(d2, "uniform", UniformFloats * FloatBytes)
    IN  [w EXCEPT
            !.bufs = c5,
            !.ps.buffers = [position |-> base + 1, velocity |-> base + 2,
                            color |-> base + 3, cylinder |-> base + 4],
            !.ps.uniformBuffer = base + 5,
            !.uni = InitialUniformData(ps.canvas, sl),
            !.lis.count = @ + 1,
            !.pend[origin] = @ + 1]

\* a compute bind group that is built once and then kept
ComputeBindGroupKept(ps) ==
    IF ps.bindGroups.compute # NullBindGroup
    THEN ps.bindGroups.compute
    ELSE [layout |-> ps.pipelines.compute,
          b0 |-> ps.buffers.position, b1 |-> ps.buffers.velocity,
          b2 |-> ps.buffers.color, b3 |-> ps.buffers.cylinder,
          b4 |-> ps.uniformBuffer]

\* the bind groups of particles.js 274-293 over the current buffers
ComputeBindGroup(ps) ==
    [layout |-> ps.pipelines.compute,
     b0 |-> ps.buffers.position, b1 |-> ps.buffers.velocity,
     b2 |-> ps.buffers.color, b3 |-> ps.buffers.cylinder,
     b4 |-> ps.uniformBuffer]

RenderBindGroup(ps) ==
    [layout |-> ps.pipelines.render,
     b0 |-> ps.buffers.position, b1 |-> 0,
     b2 |-> ps.buffers.color, b3 |-> 0,
     b4 |-> ps.uniformBuffer]

\* createParticleBuffers after the shader text arrived, particles.js 222-312
createParticleBuffersRest(w) ==
    LET p == w.ps.pipelines.render
        ps1 == [w.ps EXCEPT !.pipelines = [compute |-> p + 1, render |-> p + 2]]
        texs == RecreateTexture(w.texs, ps1.depthTexture, ps1.canvas)
        ps2 == [ps1 EXCEPT !.depthTexture = Len(texs)]
        ps3 == [ps2 EXCEPT !.bindGroups =
                   [compute |-> ComputeBindGroup(ps2),
                    render |-> RenderBindGroup(ps2)]]
    IN  [w EXCEPT !.ps = ps3,
                  !.texs = texs,
                  !.lis.repulsion = @ + 1,
                  !.lis.attraction = @ + 1]

\* a startAnimation that returns unless the loop is already running
startAnimationInverted(w, t) ==
    IF ~w.ps.running THEN w
    ELSE [w EXCEPT
            !.ps.frameId = w.nextId,
            !.nextId = @ + 1,
            !.raf = @ \cup {[id |-> w.nextId, startTime |-> t,
                             lastFrameTime |-> t,
                             sumDt |-> 0, sumRaw |-> 0]}]

\* startAnimation without the early return of line 316
startAnimationUnguarded(w, t) ==
    [w EXCEPT
        !.ps.running = TRUE,
        !.ps.frameId = w.nextId,
        !.nextId = @ + 1,
        !.raf = @ \cup {[id |-> w.nextId, startTime |-> t,
                         lastFrameTime |-> t,
                         sumDt |-> 0, sumRaw |-> 0]}]

\* startAnimation, particles.js 315-388; t is performance.now()
startAnimation(w, t) ==
    IF w.ps.running THEN w
    ELSE [w EXCEPT
            !.ps.running = TRUE,
            !.ps.frameId = w.nextId,
            !.nextId = @ + 1,
            !.raf = @ \cup {[id |-> w.nextId, startTime |-> t,
                             lastFrameTime |-> t,
                             sumDt |-> 0, sumRaw |-> 0]}]

\* cancelAnimationFrame(handle)
cancelAnimationFrame(raf, handle) == {cb \in raf : cb.id # handle}

\* a listener that rebuilds without storing the new count
countHandlerKeepsCount(w, sl) ==
    LET w1 == IF w.ps.running
              THEN [w EXCEPT !.raf = cancelAnimationFrame(@, w.ps.frameId),
                             !.ps.running = FALSE]
              ELSE w
    IN  createParticleBuffersSync(w1, sl, "count")

\* one countSlider listener up to its await, particles.js 175-185
countHandlerSync(w, sl) ==
    LET w1 == IF w.ps.running
              THEN [w EXCEPT !.raf = cancelAnimationFrame(@, w.ps.frameId),
                             !.ps.running = FALSE]
              ELSE w
        w2 == [w1 EXCEPT !.ps.particleCount = sl.count]
    IN  createParticleBuffersSync(w2, sl, "count")

\* the k listeners registered when the event was dispatched, in order
RECURSIVE RunCountListeners(_, _, _)
RunCountListeners(k, w, sl) ==
    IF k = 0 THEN w
    ELSE RunCountListeners(k - 1, countHandlerSync(w, sl), sl)

\* the k repulsionSlider / attractionSlider listeners, particles.js 296-312
RECURSIVE RunStrengthListeners(_, _, _, _)
RunStrengthListeners(k, uni, offset, value) ==
    IF k = 0 THEN uni
    ELSE RunStrengthListeners(k - 1, WriteBuffer(uni, offset, <<value>>),
                              offset, value)

(***************************************************************************)
(* The frame callback, particles.js 322-385.                               *)
(***************************************************************************)
\* the delta without the cap
ClampDtUncapped(t, lastFrameTime) == t - lastFrameTime

\* Math.min(0.033, now - lastFrameTime), particles.js 327
ClampDt(t, lastFrameTime) == Min(MaxDt, t - lastFrameTime)

\* the clock reading itself, without subtracting the start of the loop
ElapsedTimeSinceOrigin(t, startTime) == t

\* now - startTime, particles.js 329
ElapsedTime(t, startTime) == t - startTime

\* a particle count captured once at startup
DispatchCountCaptured(ps) == InitialParticleCount

\* particleSystem.particleCount as frame() reads it, particles.js 358, 379
DispatchCount(ps) == ps.particleCount

\* Math.ceil(particleCount / 64), particles.js 358
Workgroups(n) == (n + WorkgroupSize - 1) \div WorkgroupSize

(***************************************************************************)
(* How particles.wgsl sees the particle buffers.                           *)
(***************************************************************************)
RoundUp(k, n) == ((n + k - 1) \div k) * k

\* stride in bytes of the elements of array<vec3<f32>>, particles.wgsl 20-22
Vec3ArrayStride == RoundUp(Vec3Align, Vec3Size)

\* arrayLength(&positions) for a binding of the given size in bytes
ArrayLength(bytes) == bytes \div Vec3ArrayStride

\* the floats of the buffer that positions[i] names in the kernel
KernelElementFloats(i) ==
    LET first == (i * Vec3ArrayStride) \div FloatBytes
    IN  {first, first + 1, first + 2}

\* the floats createParticleBuffers fills for particle i, particles.js 100-102
JsParticleFloats(i) == {i * 3, i * 3 + 1, i * 3 + 2}

\* struct Uniforms, particles.wgsl 1-11: each member's size and alignment
UniformMembers ==
    <<[name |-> "cameraPos", size |-> Vec3Size, align |-> Vec3Align],
      [name |-> "aspectRatio", size |-> FloatBytes, align |-> FloatBytes],
      [name |-> "time", size |-> FloatBytes, align |-> FloatBytes],
      [name |-> "dt", size |-> FloatBytes, align |-> FloatBytes],
      [name |-> "numCylinders", size |-> FloatBytes, align |-> FloatBytes],
      [name |-> "_pad1", size |-> FloatBytes, align |-> FloatBytes],
      [name |-> "repulsionStrength", size |-> FloatBytes,
       align |-> FloatBytes],
      [name |-> "attractionStrength", size |-> FloatBytes,
       align |-> FloatBytes],
      [name |-> "_pad2", size |-> FloatBytes, align |-> FloatBytes]>>

\* byte offset of the k-th member of struct Uniforms
RECURSIVE MemberOffset(_)
MemberOffset(k) ==
    IF k = 1 THEN 0
    ELSE RoundUp(UniformMembers[k].align,
                 MemberOffset(k - 1) + UniformMembers[k - 1].size)

\* byte offset of the member called name
OffsetOf(name) ==
    MemberOffset(CHOOSE k \in 1..Len(UniformMembers) :
                     UniformMembers[k].name = name)

\* size in bytes of struct Uniforms
UniformsSize ==
    RoundUp(Vec3Align, MemberOffset(Len(UniformMembers))
                       + UniformMembers[Len(UniformMembers)].size)

\* lane i of a dispatch passes the guard of computeMain, particles.wgsl 61-64
LaneWrites(i, len) == ~(i >= len)

\* vertexIndex / 6u, particles.wgsl 177
VertexParticle(vertexIndex) == vertexIndex \div VerticesPerQuad

(***************************************************************************)
(* computeMain of particles.wgsl, both variants of the file: 1 is lines    *)
(* 59-170, 2 is lines 350-470.  A vector is a triple of integers; a unit   *)
(* vector is represented by the shortest integer vector of its direction.  *)
(***************************************************************************)
Abs(x) == IF x < 0 THEN -x ELSE x

Max(a, b) == IF a > b THEN a ELSE b

Zero3 == <<0, 0, 0>>

Sub3(a, b) == <<a[1] - b[1], a[2] - b[2], a[3] - b[3]>>

Scale3(a, k) == <<a[1] * k, a[2] * k, a[3] * k>>

Dot3(a, b) == a[1] * b[1] + a[2] * b[2] + a[3] * b[3]

\* floor of the square root, by bisection on lo..hi
RECURSIVE SqrtBetween(_, _, _)
SqrtBetween(n, lo, hi) ==
    IF lo >= hi THEN lo
    ELSE LET mid == (lo + hi + 1) \div 2
         IN  IF mid * mid <= n THEN SqrtBetween(n, mid, hi)
             ELSE SqrtBetween(n, lo, mid - 1)

\* length(vec2(x, z)), rounded down to the unit
Length2(x, z) ==
    IF z = 0 THEN Abs(x)
    ELSE IF x = 0 THEN Abs(z)
    ELSE SqrtBetween(x * x + z * z, 0, Abs(x) + Abs(z))

\* normalize(v): the direction of v; normalize of the zero vector is
\* indeterminate and is represented by the zero vector
Normalize3(v) ==
    LET g == Gcd(Abs(v[1]), Gcd(Abs(v[2]), Abs(v[3])))
    IN  IF g = 0 THEN Zero3 ELSE <<v[1] \div g, v[2] \div g, v[3] \div g>>

\* one entry of cylinderData, particles.js 145-149
Cylinder == [center |-> Zero3, radius |-> CylinderRadius,
             height |-> CylinderHeight]

\* sdf_finite_cylinder, particles.wgsl 34-46
sdf_finite_cylinder(p, cylinder) ==
    LET localP == Sub3(p, cylinder.center)
        dxz == Length2(localP[1], localP[3]) - cylinder.radius
        dy == Abs(localP[2]) - cylinder.height \div 2
        outside == Max(dxz, dy)
        inside == Min(Max(dxz, dy), 0)
    IN  outside + inside

\* sdf_cylinder_gradient, particles.wgsl 48-57
sdf_cylinder_gradient(p, cylinder) ==
    LET eps == GradientEps
        at(x, y, z) ==
            sdf_finite_cylinder(<<p[1] + x, p[2] + y, p[3] + z>>, cylinder)
        dx == at(eps, 0, 0) - at(-eps, 0, 0)
        dy == at(0, eps, 0) - at(0, -eps, 0)
        dz == at(0, 0, eps) - at(0, 0, -eps)
    IN  Normalize3(<<dx, dy, dz>>)

TargetDist(variant) == IF variant = 1 THEN TargetDist1 ELSE TargetDist2

RepulsionRange(variant) ==
    IF variant = 1 THEN RepulsionRange1 ELSE RepulsionRange2

SampleRate(variant) == IF variant = 1 THEN SampleRate1 ELSE SampleRate2

\* a force term that pushes away from the target distance
AttractionForceAway(variant, g, d, strength) ==
    Scale3(g, (d - TargetDist(variant)) * strength)

\* -g * d * attractionStrength (line 93) and -g * distError *
\* attractionStrength (line 386)
AttractionForce(variant, g, d, strength) ==
    Scale3(g, -1 * (d - TargetDist(variant)) * strength)

\* what one pass of a loop body adds to totalForce: a vector for the
\* attraction, and for the repulsion the unit vector dir times num / den
NoContribution ==
    [kind |-> "none", index |-> 0, d |-> 0, g |-> Zero3, force |-> Zero3,
     added |-> FALSE, dir |-> Zero3, num |-> 0, den |-> 1,
     indeterminate |-> FALSE]

\* normalize(gi) of lines 85-101 and normalize(gj) of lines 119-123
SurfaceNormal(p) ==
    LET g == sdf_cylinder_gradient(p, Cylinder)
    IN  Normalize3(Scale3(g, NumCylinders))

\* pow(dot(gi, gj), 2.0) * 5, line 126-127; 1.0 in variant 2
NormalWeight(variant, pi, pj) ==
    IF variant = 1
    THEN LET normalDot == Dot3(SurfaceNormal(pi), SurfaceNormal(pj))
         IN  normalDot * normalDot * NormalWeightScale
    ELSE 1

\* a loop body without the test of line 116
RepulsionUnguarded(variant, i, j, pos, strength) ==
    IF i = j THEN NoContribution
    ELSE LET dir == Sub3(pos[i], pos[j])
             dist2 == Dot3(dir, dir)
         IN  [NoContribution EXCEPT
                !.kind = "repel", !.index = j, !.added = TRUE,
                !.dir = Normalize3(dir),
                !.num = strength * NormalWeight(variant, pos[i], pos[j]),
                !.den = dist2 + Softening]

\* the body of the loop over j, lines 110-131 and 429-438
Repulsion(variant, i, j, pos, strength) ==
    IF i = j THEN [NoContribution EXCEPT !.kind = "repel", !.index = j]
    ELSE LET dir == Sub3(pos[i], pos[j])
             dist2 == Dot3(dir, dir)
         IN  IF dist2 < Guard * Guard
                \/ dist2 > RepulsionRange(variant) * RepulsionRange(variant)
             THEN [NoContribution EXCEPT !.kind = "repel", !.index = j]
             ELSE [NoContribution EXCEPT
                     !.kind = "repel", !.index = j, !.added = TRUE,
                     !.dir = Normalize3(dir),
                     !.num = strength
                             * NormalWeight(variant, pos[i], pos[j]),
                     !.den = dist2 + Softening,
                     !.indeterminate =
                         variant = 1 /\ Zero3 \in {SurfaceNormal(pos[i]),
                                                   SurfaceNormal(pos[j])}]

\* the body of the loop over the cylinders, lines 86-99 and 377-415
Attraction(variant, c, p, strength, cylinder) ==
    LET d == sdf_finite_cylinder(p, cylinder)
        g == sdf_cylinder_gradient(p, cylinder)
    IN  [NoContribution EXCEPT
            !.kind = "attract", !.index = c, !.d = d, !.g = g,
            !.force = AttractionForce(variant, g, d, strength),
            !.added = TRUE,
            !.indeterminate = g = Zero3]

\* a tracking of the nearest cylinder in which a later cylinder at the same
\* distance replaces the earlier one
TrackNearestLast(nearest, c, d) ==
    IF Abs(d) <= Abs(nearest.dist) THEN [dist |-> d, index |-> c]
    ELSE nearest

\* if (abs(d) < abs(nearestDist)) { nearestDist = d; nearestColor = ... },
\* lines 96-99 and 389-414; index is the cylinder the color was taken from
TrackNearest(nearest, c, d) ==
    IF Abs(d) < Abs(nearest.dist) THEN [dist |-> d, index |-> c]
    ELSE nearest

\* var nearestDist = 1000.0 with the color still white, lines 81-82
NoNearest == [dist |-> NearestSentinel, index |-> -1]

\* the statement of frame() that throws: a null device or uniform buffer at
\* writeBuffer, a null pipeline at setPipeline, or getCurrentTexture failing
FrameFault(ps, fault) ==
    IF ~ps.device \/ ps.uniformBuffer = 0 THEN "write"
    ELSE IF ps.pipelines.compute = 0 THEN "compute"
    ELSE IF fault \/ ps.depthTexture = 0 THEN "render"
    ELSE "none"

FrameSteps(stage) ==
    CASE stage = "write" -> <<>>
      [] stage = "compute" -> <<"write">>
      [] stage = "render" -> <<"write", "dispatch">>
      [] OTHER -> <<"write", "dispatch", "draw", "submit", "arm">>

\* a write of the whole 48-byte block
FrameUniformsWhole(uni, canvas, time, dt) ==
    WriteBuffer(uni, 0,
        <<<<"sinR", time>>, <<"sinH", time>>, <<"cosR", time>>,
          AspectRatio(canvas), time, dt, NumCylinders, 0, 0, 0, 0, 0>>)

\* the writeBuffer of frame(), particles.js 342-349
FrameUniforms(uni, canvas, time, dt) ==
    WriteBuffer(uni, 0,
        <<<<"sinR", time>>, <<"sinH", time>>, <<"cosR", time>>,
          AspectRatio(canvas), time, dt, NumCylinders, 0>>)

\* the submitted compute pass rewrites the bound particle buffers; a
\* submission that uses a destroyed buffer is rejected by the queue
Dispatch(bufs, bg) ==
    IF \E b \in {bg.b0, bg.b1, bg.b2, bg.b3, bg.b4} :
           b = 0 \/ bufs[b].destroyed
    THEN bufs
    ELSE [i \in 1..Len(bufs) |->
             IF i \in {bg.b0, bg.b1, bg.b2}
             THEN [bufs[i] EXCEPT !.epoch = @ + 1] ELSE bufs[i]]

\* a frame() that requests the next animation frame before it does its work
frameArmsFirst(w, cb, t, fault) ==
    LET ps == w.ps
        dt == ClampDt(t, cb.lastFrameTime)
        time == ElapsedTime(t, cb.startTime)
        stage == FrameFault(ps, fault)
        w0 == [w EXCEPT
                 !.ps.frameId = w.nextId,
                 !.nextId = @ + 1,
                 !.raf = (@ \ {cb}) \cup {[id |-> w.nextId,
                                           startTime |-> cb.startTime,
                                           lastFrameTime |-> t,
                                           sumDt |-> cb.sumDt + dt,
                                           sumRaw |-> cb.sumRaw + (t - now)]}]
        w1 == IF stage = "write" THEN w0
              ELSE [w0 EXCEPT !.uni = FrameUniforms(@, ps.canvas, time, dt)]
    IN  IF stage # "none" THEN w1
        ELSE [w1 EXCEPT !.bufs = Dispatch(@, ps.bindGroups.compute)]

\* frame() run for the armed callback cb at time t
frame(w, cb, t, fault) ==
    LET ps == w.ps
        dt == ClampDt(t, cb.lastFrameTime)
        time == ElapsedTime(t, cb.startTime)
        stage == FrameFault(ps, fault)
        w0 == [w EXCEPT !.raf = @ \ {cb}]
        w1 == IF stage = "write" THEN w0
              ELSE [w0 EXCEPT !.uni = FrameUniforms(@, ps.canvas, time, dt)]
    IN  IF stage # "none" THEN w1
        ELSE [w1 EXCEPT
                !.bufs = Dispatch(@, ps.bindGroups.compute),
                !.ps.frameId = w.nextId,
                !.nextId = @ + 1,
                !.raf = @ \cup {[id |-> w.nextId,
                                 startTime |-> cb.startTime,
                                 lastFrameTime |-> t,
                                 sumDt |-> cb.sumDt + dt,
                                 sumRaw |-> cb.sumRaw + (t - now)]}]

\* the record of that run
TickRecord(w, cb, t, fault) ==
    LET stage == FrameFault(w.ps, fault)
        dt == ClampDt(t, cb.lastFrameTime)
    IN  [ran |-> stage = "none", threw |-> stage # "none",
         steps |-> FrameSteps(stage), rawDelta |-> t - now,
         dt |-> dt, time |-> ElapsedTime(t, cb.startTime),
         sumDt |-> cb.sumDt + dt, sumRaw |-> cb.sumRaw + (t - now),
         groups |-> Workgroups(DispatchCount(w.ps)),
         drawCount |-> DispatchCount(w.ps),
         compute |-> w.ps.bindGroups.compute,
         render |-> w.ps.bindGroups.render,
         reconfiguring |-> w.pend # NoPending,
         armedAfter |-> IF stage = "none" THEN w.nextId ELSE 0,
         arrayLength |-> IF w.ps.bindGroups.compute.b0 = 0 THEN 0
                         ELSE ArrayLength(
                                 w.bufs[w.ps.bindGroups.compute.b0].size)]

(***************************************************************************)
(* One invocation of computeMain for particle i over the positions pos,    *)
(* one loop body at a time: first the cylinders, then the particles j.     *)
(***************************************************************************)
\* no dispatch in flight
NoGrid == [positions |-> <<>>, writers |-> <<>>, pc |-> <<>>, j |-> <<>>,
           k |-> <<>>, seen |-> <<>>]

pageVars == <<navigatorGpu, phase, window, sliders, listeners,
              particleSystem, gpuBuffers, gpuTextures, uniformData, pending,
              rafQueue, nextFrameId, now, lastTick, lastEvent, events>>

NoLane ==
    [variant |-> 0, i |-> 0, pos |-> <<>>, strength |-> 0, pc |-> "off",
     c |-> 0, j |-> 0, last |-> NoContribution, adders |-> {},
     cylinderCache |-> <<>>, nearest |-> NoNearest]

\* positions of particle i: on the axis, next to it, on the surface of the
\* cylinder, at the target distance outside it, further out, above the cap
LanePoints ==
    {<<0, 0, 0>>, <<1, 0, 0>>, <<2, 0, 0>>, <<20000, 0, 0>>,
     <<21000, 0, 0>>, <<25000, 0, 0>>, <<0, 21000, 0>>}

\* positions of the other particles
OtherPoints == {<<0, 0, 0>>, <<2, 0, 0>>, <<10002, 0, 0>>, <<16002, 0, 0>>}

KernelVariants == {1, 2}

InitialLanes ==
    {[NoLane EXCEPT
        !.variant = variant, !.i = i, !.strength = strength,
        !.pos = [k \in 0..KernelParticles - 1 |->
                    IF k = i THEN p ELSE others[k]],
        !.cylinderCache = [c \in 1..NumCylinders |-> Cylinder],
        !.pc = "attract"] :
     variant \in KernelVariants, i \in 0..KernelParticles - 1,
     strength \in StrengthValues, p \in LanePoints,
     others \in [0..KernelParticles - 1 -> OtherPoints]}

KernelInit ==
    /\ lane \in InitialLanes
    /\ navigatorGpu = TRUE
    /\ phase = "unloaded"
    /\ window = CHOOSE win \in Viewports : TRUE
    /\ sliders = InitialSliders
    /\ listeners = [count |-> 0, repulsion |-> 0, attraction |-> 0,
                    resize |-> 0]
    /\ particleSystem = InitialParticleSystem
    /\ gpuBuffers = <<>>
    /\ gpuTextures = <<>>
    /\ uniformData = NullUniformData
    /\ pending = NoPending
    /\ rafQueue = {}
    /\ nextFrameId = 1
    /\ now = 0
    /\ lastTick = NoTick
    /\ lastEvent = NoEvent
    /\ events = 0
    /\ grid = NoGrid

\* one pass of the loop over the cylinders
AttractStep ==
    /\ lane.pc = "attract"
    /\ lane.c < NumCylinders
    /\ lane' = [lane EXCEPT
                  !.last = Attraction(lane.variant, lane.c, lane.pos[lane.i],
                                      lane.strength,
                                      lane.cylinderCache[lane.c + 1]),
                  !.nearest =
                      TrackNearest(@, lane.c,
                          sdf_finite_cylinder(lane.pos[lane.i],
                                              lane.cylinderCache[lane.c + 1])),
                  !.c = @ + 1,
                  !.pc = IF lane.c + 1 < NumCylinders THEN "attract"
                         ELSE "repel"]
    /\ UNCHANGED pageVars
    /\ UNCHANGED grid

\* one pass of the loop over the particles j
RepelStep ==
    /\ lane.pc = "repel"
    /\ lane.j < KernelParticles
    /\ LET r == Repulsion(lane.variant, lane.i, lane.j, lane.pos,
                          lane.strength)
           next == lane.j + SampleRate(lane.variant)
       IN  lane' = [lane EXCEPT
                      !.last = r,
                      !.adders = IF r.added THEN @ \cup {lane.j} ELSE @,
                      !.j = next,
                      !.pc = IF next < KernelParticles THEN "repel"
                             ELSE "done"]
    /\ UNCHANGED pageVars
    /\ UNCHANGED grid

KernelNext ==
    \/ AttractStep
    \/ RepelStep

KernelSpec == KernelInit /\ [][KernelNext]_vars

\* cylinders a cylinder buffer can hold: the one of cylinderData, a thinner
\* one, and a thin one beside the axis
CylinderChoices ==
    {Cylinder,
     [center |-> Zero3, radius |-> 10000, height |-> CylinderHeight],
     [center |-> <<32500, 0, 0>>, radius |-> 10000,
      height |-> CylinderHeight]}

\* the loop over the cylinders for one particle and any cylinder buffer
NearestLanes ==
    {[NoLane EXCEPT
        !.variant = variant, !.i = 0, !.strength = 1,
        !.pos = [k \in 0..KernelParticles - 1 |->
                    IF k = 0 THEN p ELSE Zero3],
        !.cylinderCache = cyls,
        !.pc = "attract"] :
     variant \in KernelVariants, p \in LanePoints,
     cyls \in [1..NumCylinders -> CylinderChoices]}

NearestInit ==
    /\ lane \in NearestLanes
    /\ navigatorGpu = TRUE
    /\ phase = "unloaded"
    /\ window = CHOOSE win \in Viewports : TRUE
    /\ sliders = InitialSliders
    /\ listeners = [count |-> 0, repulsion |-> 0, attraction |-> 0,
                    resize |-> 0]
    /\ particleSystem = InitialParticleSystem
    /\ gpuBuffers = <<>>
    /\ gpuTextures = <<>>
    /\ uniformData = NullUniformData
    /\ pending = NoPending
    /\ rafQueue = {}
    /\ nextFrameId = 1
    /\ now = 0
    /\ lastTick = NoTick
    /\ lastEvent = NoEvent
    /\ events = 0
    /\ grid = NoGrid

NearestNext == AttractStep

NearestSpec == NearestInit /\ [][NearestNext]_vars

(***************************************************************************)
(* One dispatch: the invocations of computeMain run concurrently on the    *)
(* same bindings.  A component of a position is 0 while it holds the value *)
(* from before the dispatch and 1 once its lane has stored the new value;  *)
(* the store of a vec3 is not atomic and proceeds one component at a time. *)
(***************************************************************************)
GridIds == 0..GridLanes - 1

KernelArrays == {"positions", "velocities", "colors"}

Before == <<0, 0, 0>>

After == <<1, 1, 1>>

InitialGrids ==
    {[variant |-> variant,
      positions |-> [e \in GridIds |-> Before],
      writers |-> [a \in KernelArrays |-> [e \in GridIds |-> {}]],
      pc |-> [i \in GridIds |-> "start"],
      j |-> [i \in GridIds |-> 0],
      k |-> [i \in GridIds |-> 1],
      seen |-> [i \in GridIds |-> [e \in GridIds |-> <<>>]]] :
     variant \in KernelVariants}

GridInit ==
    /\ grid \in InitialGrids
    /\ lane = NoLane
    /\ navigatorGpu = TRUE
    /\ phase = "unloaded"
    /\ window = CHOOSE win \in Viewports : TRUE
    /\ sliders = InitialSliders
    /\ listeners = [count |-> 0, repulsion |-> 0, attraction |-> 0,
                    resize |-> 0]
    /\ particleSystem = InitialParticleSystem
    /\ gpuBuffers = <<>>
    /\ gpuTextures = <<>>
    /\ uniformData = NullUniformData
    /\ pending = NoPending
    /\ rafQueue = {}
    /\ nextFrameId = 1
    /\ now = 0
    /\ lastTick = NoTick
    /\ lastEvent = NoEvent
    /\ events = 0

\* the element that invocation i stores to, particles.wgsl 157-161
StoreTarget(i) == i

\* var p = positions[i]; var v = velocities[i], particles.wgsl 77-78
LoadOwn(i) ==
    /\ grid.pc[i] = "start"
    /\ grid' = [grid EXCEPT !.seen[i][i] = grid.positions[i],
                            !.pc[i] = "loop"]
    /\ UNCHANGED <<lane, pageVars>>

\* one pass of the loop over j: let pj = positions[j], lines 109-112
LoadNeighbor(i) ==
    /\ grid.pc[i] = "loop"
    /\ grid.j[i] < GridLanes
    /\ LET j == grid.j[i]
           next == j + SampleRate(grid.variant)
       IN  grid' = [grid EXCEPT
                      !.seen[i][j] = IF j = i THEN @ ELSE grid.positions[j],
                      !.j[i] = next,
                      !.pc[i] = IF next < GridLanes THEN "loop"
                                ELSE "velocity"]
    /\ UNCHANGED <<lane, pageVars>>

\* velocities[i] = v, line 157
StoreVelocity(i) ==
    /\ grid.pc[i] = "velocity"
    /\ grid' = [grid EXCEPT
                  !.writers["velocities"][StoreTarget(i)] = @ \cup {i},
                  !.pc[i] = "position"]
    /\ UNCHANGED <<lane, pageVars>>

\* positions[i] = p, line 158: the next component of the vec3
StorePosition(i) ==
    /\ grid.pc[i] = "position"
    /\ LET k == grid.k[i]
       IN  grid' = [grid EXCEPT
                      !.positions[StoreTarget(i)][k] = 1,
                      !.writers["positions"][StoreTarget(i)] = @ \cup {i},
                      !.k[i] = k + 1,
                      !.pc[i] = IF k < 3 THEN "position" ELSE "color"]
    /\ UNCHANGED <<lane, pageVars>>

\* colors[i] = mix(colors[i], nearestColor, 0.05), line 161
StoreColor(i) ==
    /\ grid.pc[i] = "color"
    /\ grid' = [grid EXCEPT
                  !.writers["colors"][StoreTarget(i)] = @ \cup {i},
                  !.pc[i] = "done"]
    /\ UNCHANGED <<lane, pageVars>>

LoadOwnStep == \E i \in GridIds : LoadOwn(i)

LoadNeighborStep == \E i \in GridIds : LoadNeighbor(i)

StoreVelocityStep == \E i \in GridIds : StoreVelocity(i)

StorePositionStep == \E i \in GridIds : StorePosition(i)

StoreColorStep == \E i \in GridIds : StoreColor(i)

GridNext ==
    \/ LoadOwnStep
    \/ LoadNeighborStep
    \/ StoreVelocityStep
    \/ StorePositionStep
    \/ StoreColorStep

GridSpec == GridInit /\ [][GridNext]_vars

(***************************************************************************)
(* Initial state and actions.                                              *)
(***************************************************************************)
Init ==
    /\ navigatorGpu \in BOOLEAN
    /\ phase = "unloaded"
    /\ window \in Viewports
    /\ sliders = InitialSliders
    /\ listeners = [count |-> 0, repulsion |-> 0, attraction |-> 0,
                    resize |-> 0]
    /\ particleSystem = InitialParticleSystem
    /\ gpuBuffers = <<>>
    /\ gpuTextures = <<>>
    /\ uniformData = NullUniformData
    /\ pending = NoPending
    /\ rafQueue = {}
    /\ nextFrameId = 1
    /\ now = 0
    /\ lastTick = NoTick
    /\ lastEvent = NoEvent
    /\ events = 0
    /\ grid = NoGrid
    /\ lane = NoLane

\* the load listener, particles.js 391-394, up to the first real suspension:
\* without navigator.gpu initParticleSystem returns at line 24 and the
\* listener goes on to startAnimation()
Load ==
    /\ phase = "unloaded"
    /\ IF navigatorGpu
       THEN /\ phase' = "acquiring"
            /\ Commit(World)
       ELSE /\ phase' = "unsupported"
            /\ Commit(startAnimation(World, now))
    /\ UNCHANGED <<grid, lane, navigatorGpu, window, sliders, now, lastTick, lastEvent,
                   events>>

\* initParticleSystem after requestAdapter/requestDevice, particles.js 32-83
AcquireDevice ==
    /\ phase = "acquiring"
    /\ phase' = "loading"
    /\ LET w1 == [World EXCEPT !.lis.resize = @ + 1,
                               !.ps.device = TRUE,
                               !.ps.canvas = window]
           w2 == resizeCanvas(w1, window)
       IN  Commit(createParticleBuffersSync(w2, sliders, "init"))
    /\ UNCHANGED <<grid, lane, navigatorGpu, window, sliders, now, lastTick, lastEvent,
                   events>>

\* requestAdapter resolves to null (or requestDevice rejects): line 29 throws
AcquireFails ==
    /\ phase = "acquiring"
    /\ phase' = "rejected"
    /\ UNCHANGED <<grid, lane, navigatorGpu, window, sliders, listeners, particleSystem,
                   gpuBuffers, gpuTextures, uniformData, pending, rafQueue,
                   nextFrameId, now, lastTick, lastEvent, events>>

\* fetch('particles.wgsl') resolves for a call made by origin: the rest of
\* createParticleBuffers runs and its caller goes on to startAnimation()
ShaderLoaded(origin) ==
    /\ pending[origin] > 0
    /\ LET w1 == [World EXCEPT !.pend[origin] = @ - 1]
       IN  Commit(startAnimation(createParticleBuffersRest(w1), now))
    /\ phase' = IF origin = "init" THEN "started" ELSE phase
    /\ UNCHANGED <<grid, lane, navigatorGpu, window, sliders, now, lastTick, lastEvent,
                   events>>

\* fetch rejects or the response is not ok: createParticleBuffers throws at
\* line 217 and its caller never reaches startAnimation()
ShaderFails(origin) ==
    /\ pending[origin] > 0
    /\ pending' = [pending EXCEPT ![origin] = @ - 1]
    /\ phase' = IF origin = "init" THEN "rejected" ELSE phase
    /\ UNCHANGED <<grid, lane, navigatorGpu, window, sliders, listeners, particleSystem,
                   gpuBuffers, gpuTextures, uniformData, rafQueue,
                   nextFrameId, now, lastTick, lastEvent, events>>

\* the display refresh runs an armed frame callback, delta ms after the
\* previous reading of the clock
Tick(cb, delta, fault) ==
    /\ cb \in rafQueue
    /\ now + delta <= MaxNow
    /\ now' = now + delta
    /\ Commit(frame(World, cb, now + delta, fault))
    /\ lastTick' = TickRecord(World, cb, now + delta, fault)
    /\ UNCHANGED <<grid, lane, navigatorGpu, phase, window, sliders, lastEvent, events>>

\* 'resize' on window, particles.js 64
Resize(win) ==
    /\ events < MaxEvents
    /\ events' = events + 1
    /\ window' = win
    /\ IF listeners.resize > 0
       THEN /\ Commit(resizeCanvas(World, win))
            /\ lastEvent' = [kind |-> "resize", reconfigs |-> 0,
                             writes |-> IF particleSystem.uniformBuffer # 0
                                        THEN 1 ELSE 0]
       ELSE /\ Commit(World)
            /\ lastEvent' = [kind |-> "resize", reconfigs |-> 0, writes |-> 0]
    /\ UNCHANGED <<grid, lane, navigatorGpu, phase, sliders, now, lastTick>>

\* 'input' on the particle-count slider, particles.js 175-187
CountInput(v) ==
    /\ events < MaxEvents
    /\ events' = events + 1
    /\ listeners.count <= MaxHandlers
    /\ sliders' = [sliders EXCEPT !.count = v]
    /\ Commit(RunCountListeners(listeners.count, World, sliders'))
    /\ lastEvent' = [kind |-> "count", reconfigs |-> listeners.count,
                     writes |-> 0]
    /\ UNCHANGED <<grid, lane, navigatorGpu, phase, window, now, lastTick>>

\* 'input' on the repulsion-strength slider, particles.js 296-303
RepulsionInput(v) ==
    /\ events < MaxEvents
    /\ events' = events + 1
    /\ sliders' = [sliders EXCEPT !.repulsion = v]
    /\ uniformData' = RunStrengthListeners(listeners.repulsion, uniformData,
                                           RepulsionOffset, v)
    /\ lastEvent' = [kind |-> "repulsion", reconfigs |-> 0,
                     writes |-> listeners.repulsion]
    /\ UNCHANGED <<grid, lane, navigatorGpu, phase, window, listeners, particleSystem,
                   gpuBuffers, gpuTextures, pending, rafQueue, nextFrameId,
                   now, lastTick>>

\* 'input' on the attraction-strength slider, particles.js 305-312
AttractionInput(v) ==
    /\ events < MaxEvents
    /\ events' = events + 1
    /\ sliders' = [sliders EXCEPT !.attraction = v]
    /\ uniformData' = RunStrengthListeners(listeners.attraction, uniformData,
                                           AttractionOffset, v)
    /\ lastEvent' = [kind |-> "attraction", reconfigs |-> 0,
                     writes |-> listeners.attraction]
    /\ UNCHANGED <<grid, lane, navigatorGpu, phase, window, listeners, particleSystem,
                   gpuBuffers, gpuTextures, pending, rafQueue, nextFrameId,
                   now, lastTick>>

ShaderLoadedStep == \E origin \in Origins : ShaderLoaded(origin)

ShaderFailsStep == \E origin \in Origins : ShaderFails(origin)

TickStep ==
    \E cb \in rafQueue, delta \in Deltas, fault \in BOOLEAN :
        Tick(cb, delta, fault)

ResizeStep == \E win \in Viewports : Resize(win)

CountInputStep == \E v \in CountValues : CountInput(v)

RepulsionInputStep == \E v \in StrengthValues : RepulsionInput(v)

AttractionInputStep == \E v \in StrengthValues : AttractionInput(v)

Next ==
    \/ Load
    \/ AcquireDevice
    \/ AcquireFails
    \/ ShaderLoadedStep
    \/ ShaderFailsStep
    \/ TickStep
    \/ ResizeStep
    \/ CountInputStep
    \/ RepulsionInputStep
    \/ AttractionInputStep

Spec == Init /\ [][Next]_vars

\* the fetch of the first createParticleBuffers call fails
InitShaderFailsStep == ShaderFails("init")

\* the fetch of a reconfiguration resolves
CountShaderLoadedStep == ShaderLoaded("count")

\* the fetch of the first createParticleBuffers call resolves
InitShaderLoadedStep == ShaderLoaded("init")

\* a display refresh after a long pause
LiveTickStep ==
    \E cb \in rafQueue, fault \in BOOLEAN :
        \E delta \in LiveDeltas : Tick(cb, delta, fault)

\* the other events, each with one value
LiveResizeStep == \E win \in LiveViewports : Resize(win)

LiveRepulsionStep == \E v \in LiveStrengthValues : RepulsionInput(v)

LiveAttractionStep == \E v \in LiveStrengthValues : AttractionInput(v)

\* the behaviours in which every fetch made by a reconfiguration resolves
\* with the kernel source: a pending fetch of a count change cannot fail,
\* and the network answers it eventually
LiveNext ==
    \/ Load
    \/ AcquireDevice
    \/ AcquireFails
    \/ InitShaderLoadedStep
    \/ InitShaderFailsStep
    \/ CountShaderLoadedStep
    \/ LiveTickStep
    \/ LiveResizeStep
    \/ CountInputStep
    \/ LiveRepulsionStep
    \/ LiveAttractionStep

LiveSpec == Init /\ [][LiveNext]_vars /\ WF_vars(CountShaderLoadedStep)

(***************************************************************************)
(* Properties.                                                             *)
(***************************************************************************)
\* the five buffers a compute bind group binds, in binding order
Bound(bg) == <<bg.b0, bg.b1, bg.b2, bg.b3, bg.b4>>

\* C1: a frame() that throws leaves the scheduler Idle (running = false)
\* with no tick armed.
C1_ThrowingTickGoesIdle ==
    [][(TickStep /\ lastTick'.threw) =>
          (~particleSystem'.running /\ rafQueue' = {})]_vars

\* C2: without navigator.gpu the scheduler never leaves Idle and no tick is
\* ever armed or executed.
C2_NoBackendNeverStarts ==
    ~navigatorGpu =>
        (~particleSystem.running /\ rafQueue = {} /\ lastTick = NoTick)

\* C3: once no reconfiguration is in flight, bind groups that exist bind
\* exactly particleSystem.buffers and particleSystem.uniformBuffer, also
\* after a kernel-source load failed.
C3_NoHybridGeneration ==
    (pending = NoPending /\
     particleSystem.bindGroups.compute # NullBindGroup) =>
        /\ Bound(particleSystem.bindGroups.compute) =
              <<particleSystem.buffers.position,
                particleSystem.buffers.velocity,
                particleSystem.buffers.color,
                particleSystem.buffers.cylinder,
                particleSystem.uniformBuffer>>
        /\ Bound(particleSystem.bindGroups.render) =
              <<particleSystem.buffers.position, 0,
                particleSystem.buffers.color, 0,
                particleSystem.uniformBuffer>>

\* C4: no tick submits a dispatch while a reconfiguration that has torn
\* down the old generation is still waiting to rebuild its bind groups.
C4_NoTickDuringReconfiguration ==
    lastTick.ran => ~lastTick.reconfiguring

\* C5: once the system has started, a particle-count event runs exactly one
\* createParticleBuffers call and a strength event exactly one write.
C5_OneUpdatePerEvent ==
    [][(phase = "started") =>
          /\ CountInputStep => lastEvent'.reconfigs = 1
          /\ RepulsionInputStep => lastEvent'.writes = 1
          /\ AttractionInputStep => lastEvent'.writes = 1]_vars

\* C6: a tick that submits uses bind groups that bind exactly the current
\* position, velocity, color, cylinder and uniform buffers, none destroyed.
C6_TickBindsCurrentBuffers ==
    [][(TickStep /\ lastTick'.ran) =>
          /\ Bound(lastTick'.compute) =
                <<particleSystem.buffers.position,
                  particleSystem.buffers.velocity,
                  particleSystem.buffers.color,
                  particleSystem.buffers.cylinder,
                  particleSystem.uniformBuffer>>
          /\ Bound(lastTick'.render) =
                <<particleSystem.buffers.position, 0,
                  particleSystem.buffers.color, 0,
                  particleSystem.uniformBuffer>>
          /\ lastTick'.compute.layout = particleSystem.pipelines.compute
          /\ lastTick'.render.layout = particleSystem.pipelines.render
          /\ \A i \in 1..5 :
                /\ Bound(lastTick'.compute)[i] \in 1..Len(gpuBuffers)
                /\ ~gpuBuffers[Bound(lastTick'.compute)[i]].destroyed]_vars

C6_Witness ==
    /\ lastTick.ran
    /\ lastTick.reconfiguring
    /\ lastTick.compute.b0 > 5
    /\ lastEvent.kind = "resize"

\* C7: a tick dispatches ceil(M/64) groups and draws M, where M is the
\* particle count last requested, against buffers of exactly 3*M floats;
\* and whenever no reconfiguration is in flight the three particle buffers
\* hold exactly 3*particleCount floats.
C7_TickUsesNewCount ==
    /\ [][(TickStep /\ lastTick'.ran) =>
            /\ lastTick'.drawCount = particleSystem.particleCount
            /\ lastTick'.groups * WorkgroupSize >= lastTick'.drawCount
            /\ (lastTick'.groups - 1) * WorkgroupSize < lastTick'.drawCount
            /\ (lastEvent.kind = "count" /\ lastEvent.reconfigs > 0) =>
                   lastTick'.drawCount = sliders.count
            /\ \A b \in {lastTick'.compute.b0, lastTick'.compute.b1,
                         lastTick'.compute.b2, lastTick'.render.b0,
                         lastTick'.render.b2} :
                   gpuBuffers[b].size =
                       3 * FloatBytes * lastTick'.drawCount]_vars
    /\ [](particleSystem.buffers # NullBuffers =>
            \A b \in {particleSystem.buffers.position,
                      particleSystem.buffers.velocity,
                      particleSystem.buffers.color} :
                /\ ~gpuBuffers[b].destroyed
                /\ gpuBuffers[b].size =
                       3 * FloatBytes * particleSystem.particleCount)

C7_Witness ==
    /\ lastTick.ran
    /\ lastEvent.kind = "count"
    /\ lastEvent.reconfigs > 0
    /\ lastTick.drawCount = 2048
    /\ lastTick.compute.b0 > 5
    /\ pending = NoPending

\* C8: the dt a tick writes to the parameters is at most 0.033 s whatever
\* the measured delta.
C8_DtClamped ==
    /\ lastTick.dt <= MaxDt
    /\ uniformData[6] <= MaxDt

C8_Witness ==
    /\ lastTick.ran
    /\ lastTick.rawDelta > MaxDt
    /\ uniformData[6] = MaxDt

\* C9 as stated: the elapsed time a tick writes is the sum of the clamped
\* dt values since the loop started.
C9_TimeIsSumOfClampedDt ==
    lastTick.steps # <<>> => lastTick.time = lastTick.sumDt

\* C9 amended: the elapsed time a tick writes is the wall-clock time since
\* the loop started, the sum of the unclamped deltas; it is never below the
\* sum of the clamped dt values and exceeds it once a delta exceeded 0.033 s.
C9_TimeIsWallClock ==
    [][(TickStep /\ lastTick'.steps # <<>>) =>
          /\ uniformData'[5] = lastTick'.sumRaw
          /\ lastTick'.time = lastTick'.sumRaw
          /\ lastTick'.time >= lastTick'.sumDt
          /\ (lastTick'.rawDelta > MaxDt) =>
                 lastTick'.time > lastTick'.sumDt]_vars

C9_Witness ==
    /\ lastTick.ran
    /\ lastTick.rawDelta > MaxDt
    /\ lastTick.time > lastTick.sumDt
    /\ lastTick.time < now

\* C10: a resize sets aspectRatio to the new width/height, replaces the
\* depth target by one of the new size, and changes nothing else.
C10_ResizeOnlyAspectAndDepth ==
    [][(ResizeStep /\ listeners.resize > 0) =>
          /\ uniformData'[4][1] * window'[2] = uniformData'[4][2] * window'[1]
          /\ \A i \in 1..UniformFloats :
                i # 4 => uniformData'[i] = uniformData[i]
          /\ particleSystem'.depthTexture # particleSystem.depthTexture
          /\ gpuTextures'[particleSystem'.depthTexture] =
                [size |-> window', destroyed |-> FALSE]
          /\ gpuTextures'[particleSystem.depthTexture].destroyed
          /\ particleSystem' =
                [particleSystem EXCEPT
                    !.canvas = window',
                    !.depthTexture = particleSystem'.depthTexture]
          /\ UNCHANGED <<gpuBuffers, pending, listeners, rafQueue,
                         nextFrameId, lastTick, phase>>]_vars

C10_Witness ==
    /\ lastEvent.kind = "resize"
    /\ lastEvent.writes = 1
    /\ particleSystem.running
    /\ particleSystem.canvas = window
    /\ gpuBuffers[particleSystem.buffers.position].epoch > 0

\* C11: at most one frame callback is armed at any time.
C11_AtMostOneTickArmed == Cardinality(rafQueue) <= 1

C11_Witness ==
    /\ Cardinality(rafQueue) = 1
    /\ lastTick.ran
    /\ lastTick.reconfiguring
    /\ lastEvent.kind = "count"
    /\ lastEvent.reconfigs = 2
    /\ pending.count > 0
    /\ \A cb \in rafQueue : cb.id > 3

\* the number of times step x occurs in the log of a tick
Occurrences(steps, x) == Cardinality({k \in 1..Len(steps) : steps[k] = x})

\* C12: a tick issues exactly one dispatch followed by exactly one draw; the
\* dispatch has G = ceil(particleCount/64) groups, every particle index below
\* particleCount is written by its lane and lanes at or above it write nothing.
C12_DispatchCoversAllParticles ==
    lastTick.ran =>
        /\ Occurrences(lastTick.steps, "dispatch") = 1
        /\ Occurrences(lastTick.steps, "draw") = 1
        /\ \E k \in 1..Len(lastTick.steps) - 1 :
              lastTick.steps[k] = "dispatch" /\ lastTick.steps[k + 1] = "draw"
        /\ lastTick.groups * WorkgroupSize >= lastTick.drawCount
        /\ lastTick.drawCount > WorkgroupSize * (lastTick.groups - 1)
        /\ \A i \in 0..lastTick.groups * WorkgroupSize - 1 :
              LaneWrites(i, lastTick.arrayLength) <=> i < lastTick.drawCount

\* C13: the kernel finds particle i at floats 3i..3i+2 of each buffer, where
\* createParticleBuffers put it, and arrayLength(&positions) is particleCount.
C13_KernelSeesJsLayout ==
    lastTick.ran =>
        /\ lastTick.arrayLength = lastTick.drawCount
        /\ \A i \in 0..lastTick.drawCount - 1 :
              KernelElementFloats(i) = JsParticleFloats(i)

\* the slot of the parameter block that holds the float at a byte offset
Slot(offset) == offset \div FloatBytes + 1

\* C14: the parameter block is 48 bytes; a tick writes only bytes 0..31 and
\* leaves repulsionStrength (offset 32) and attractionStrength (offset 36) as
\* they were; a repulsion event writes only offset 32 and an attraction event
\* only offset 36.
C14_WritesStayInTheirFields ==
    [][/\ OffsetOf("repulsionStrength") = 32
       /\ OffsetOf("attractionStrength") = 36
       /\ UniformsSize = 48
       /\ particleSystem.uniformBuffer # 0 =>
             gpuBuffers[particleSystem.uniformBuffer].size = 48
       /\ now' # now =>
             \A i \in 1..UniformFloats :
                 (i - 1) * FloatBytes >= 32 => uniformData'[i] = uniformData[i]
       /\ (lastTick'.ran /\ now' # now) =>
             /\ uniformData'[5] = lastTick'.time
             /\ uniformData'[6] = lastTick'.dt
       /\ (events' # events /\ lastEvent'.kind = "repulsion") =>
             /\ lastEvent'.writes > 0 =>
                   uniformData'[Slot(OffsetOf("repulsionStrength"))]
                       = sliders'.repulsion
             /\ \A i \in 1..UniformFloats :
                   i # Slot(32) => uniformData'[i] = uniformData[i]
       /\ (events' # events /\ lastEvent'.kind = "attraction") =>
             /\ lastEvent'.writes > 0 =>
                   uniformData'[Slot(OffsetOf("attractionStrength"))]
                       = sliders'.attraction
             /\ \A i \in 1..UniformFloats :
                   i # Slot(36) => uniformData'[i] = uniformData[i]]_vars

C14_Witness ==
    /\ lastTick.ran
    /\ lastTick.time > 0
    /\ uniformData[5] = lastTick.time
    /\ uniformData[Slot(32)] = 2
    /\ uniformData[Slot(36)] = 2
    /\ sliders.repulsion = 2
    /\ lastEvent.kind = "attraction"
    /\ lastEvent.writes > 0

\* the buffers that are allocated and not destroyed
LiveBuffers == {b \in 1..Len(gpuBuffers) : ~gpuBuffers[b].destroyed}

\* the buffers of the current generation
CurrentBuffers ==
    {particleSystem.buffers.position, particleSystem.buffers.velocity,
     particleSystem.buffers.color, particleSystem.buffers.cylinder,
     particleSystem.uniformBuffer} \ {0}

\* C16: after any sequence of reconfigurations every buffer that is not part
\* of the current generation is destroyed, and at most five buffers are live.
C16_OnlyCurrentBuffersLive ==
    /\ LiveBuffers \subseteq CurrentBuffers
    /\ Cardinality(LiveBuffers) <= 5

C16_Witness ==
    /\ Len(gpuBuffers) >= 15
    /\ Cardinality(LiveBuffers) = 5
    /\ lastEvent.kind = "count"
    /\ lastEvent.reconfigs = 2
    /\ \E b \in 1..Len(gpuBuffers) :
          gpuBuffers[b].destroyed /\ gpuBuffers[b].kind = "uniform"

\* the vertex invocations of a draw(count): vertex_index 0..count-1
DrawnVertices(count) == 0..count - 1

\* C19: every particle is drawn as a quad of 6 vertices: for each particle i
\* below particleCount the draw call supplies the 6 vertex invocations that
\* the vertex stage maps to particle i.
C19_EveryParticleDrawnAsQuad ==
    lastTick.ran =>
        \A i \in 0..lastTick.drawCount - 1 :
            \A k \in 0..VerticesPerQuad - 1 :
                /\ i * VerticesPerQuad + k \in DrawnVertices(lastTick.drawCount)
                /\ VertexParticle(i * VerticesPerQuad + k) = i

\* the order in which a tick that completes takes its steps
TickOrder == <<"write", "dispatch", "draw", "submit", "arm">>

\* C20: the steps of a tick are strictly ordered: parameter write, dispatch,
\* draw, submission, then arming of the next tick; a tick that fails before
\* its submission arms nothing and submits nothing.
C20_TickStepsOrdered ==
    [][now' # now =>
          LET steps == lastTick'.steps
              submitted == \E k \in 1..Len(steps) : steps[k] = "submit"
          IN  /\ Len(steps) <= Len(TickOrder)
              /\ steps = SubSeq(TickOrder, 1, Len(steps))
              /\ lastTick'.ran <=> submitted
              /\ ~submitted =>
                    /\ lastTick'.threw
                    /\ rafQueue' \subseteq rafQueue
                    /\ rafQueue' # rafQueue
                    /\ nextFrameId' = nextFrameId
                    /\ particleSystem' = particleSystem
                    /\ gpuBuffers' = gpuBuffers
              /\ submitted =>
                    /\ steps[Len(steps)] = "arm"
                    /\ \E cb \in rafQueue' :
                          /\ cb.id = nextFrameId
                          /\ cb \notin rafQueue
                          /\ particleSystem'.frameId = cb.id
                    /\ nextFrameId' = nextFrameId + 1]_vars

C20_Witness ==
    /\ lastTick.threw
    /\ lastTick.steps = <<"write", "dispatch">>
    /\ rafQueue = {}
    /\ particleSystem.running
    /\ nextFrameId > 2

\* C15: when the kernel source loads, every particle-count change (which
\* leaves the scheduler Idle with a reconfiguration pending) is eventually
\* followed by the scheduler Running with a tick armed, and every
\* reconfiguration that ends leaves the scheduler Running; this also when
\* the scheduler was Idle or a reconfiguration was pending at the event.
C15_CountChangeRestartsLoop ==
    /\ (pending.count > 0 /\ ~particleSystem.running)
          ~> (particleSystem.running /\ rafQueue # {})
    /\ [][pending'.count < pending.count => particleSystem'.running]_vars

C15_Witness ==
    /\ lastEvent.kind = "count"
    /\ lastEvent.reconfigs = 2
    /\ phase = "rejected"
    /\ pending.count = 0
    /\ particleSystem.running
    /\ rafQueue # {}

\* the squared distance between particles a and b of the lane
Dist2(a, b) ==
    Dot3(Sub3(lane.pos[a], lane.pos[b]), Sub3(lane.pos[a], lane.pos[b]))

\* the squared cutoff of the lane's variant of the kernel
Cutoff2 ==
    IF lane.variant = 1 THEN RepulsionRange1 * RepulsionRange1
    ELSE RepulsionRange2 * RepulsionRange2

\* C17: the repulsion that particle j contributes to particle i is exactly
\* zero when j = i, when their distance is below the guard 0.0001 and when
\* it is beyond the cutoff; only pairs with guard <= distance <= cutoff add
\* a force.
C17_RepulsionOnlyInRange ==
    /\ lane.last.kind = "repel" =>
          LET j == lane.last.index
              d2 == Dist2(lane.i, j)
          IN  /\ (j = lane.i \/ d2 < Guard * Guard \/ d2 > Cutoff2) =>
                    /\ ~lane.last.added
                    /\ lane.last.num = 0
                    /\ lane.last.dir = Zero3
              /\ lane.last.added =>
                    /\ j # lane.i
                    /\ d2 >= Guard * Guard
                    /\ d2 <= Cutoff2
                    /\ lane.last.den = d2 + Softening
    /\ \A j \in lane.adders :
          /\ j # lane.i
          /\ Dist2(lane.i, j) >= Guard * Guard
          /\ Dist2(lane.i, j) <= Cutoff2

C17_Witness ==
    /\ lane.pc = "done"
    /\ lane.variant = 1
    /\ lane.pos[lane.i] = <<2, 0, 0>>
    /\ \E j \in lane.adders : Dist2(lane.i, j) = Guard * Guard
    /\ \E j \in lane.adders : Dist2(lane.i, j) = Cutoff2
    /\ \E j \in 0..KernelParticles - 1 :
          j # lane.i /\ j \notin lane.adders /\ Dist2(lane.i, j) = 0

\* C18: for one primitive the attraction term is zero at the target
\* distance, and otherwise it points toward the target: along -g when the
\* distance d is above the target and along +g when it is below, for a
\* positive attractionStrength and a gradient direction g that is defined.
C18_AttractionTowardTarget ==
    lane.last.kind = "attract" =>
        LET d == lane.last.d
            g == lane.last.g
            f == lane.last.force
            t == IF lane.variant = 1 THEN TargetDist1 ELSE TargetDist2
        IN  /\ d = sdf_finite_cylinder(lane.pos[lane.i], Cylinder)
            /\ d = t => f = Zero3
            /\ (lane.strength > 0 /\ g # Zero3) =>
                  /\ d > t => \E k \in {(d - t) * lane.strength} :
                                  k > 0 /\ f = Scale3(g, -k)
                  /\ d < t => \E k \in {(t - d) * lane.strength} :
                                  k > 0 /\ f = Scale3(g, k)

C18_Witness ==
    /\ lane.last.kind = "attract"
    /\ lane.last.index = NumCylinders - 1
    /\ lane.variant = 2
    /\ lane.pos[lane.i] = <<25000, 0, 0>>
    /\ lane.last.d = 5000
    /\ lane.last.g = <<1, 0, 0>>
    /\ lane.last.force[1] < 0
    /\ lane.strength = 2

\* |d| of the lane's particle for the cylinder at position c of the loop
AbsDist(c) ==
    Abs(sdf_finite_cylinder(lane.pos[lane.i], lane.cylinderCache[c + 1]))

\* C22: once the loop over the primitives has ended, the primitive the
\* color was taken from has the minimum |d(p)|, and among primitives of
\* exactly equal |d(p)| it is the first in iteration order; during the loop
\* the same holds of the primitives visited so far.
C22_NearestIsFirstMinimum ==
    (lane.pc # "off" /\ lane.c > 0) =>
        /\ lane.nearest.index \in 0..lane.c - 1
        /\ Abs(lane.nearest.dist) = AbsDist(lane.nearest.index)
        /\ \A c \in 0..lane.c - 1 :
              AbsDist(c) >= AbsDist(lane.nearest.index)
        /\ \A c \in 0..lane.nearest.index - 1 :
              AbsDist(c) > AbsDist(lane.nearest.index)

C22_Witness ==
    /\ lane.c = NumCylinders
    /\ lane.nearest.index = 1
    /\ AbsDist(2) = AbsDist(1)
    /\ AbsDist(0) > AbsDist(1)
    /\ lane.cylinderCache[2] # lane.cylinderCache[3]
    /\ lane.nearest.dist < 0

\* C21: in one dispatch lane i writes only element i of the position,
\* velocity and color arrays, so no element has two writers, and what lane i
\* reads of positions[j], j # i, is either the value before lane j's write
\* or the value after it.
C21_LanesIndependent ==
    /\ \A a \in KernelArrays : \A e \in GridIds :
          grid.writers[a][e] \subseteq {e}
    /\ \A i \in GridIds : \A j \in GridIds \ {i} :
          grid.seen[i][j] # <<>> => grid.seen[i][j] \in {Before, After}

\* C23: after a burst of particle-count changes, also overlapping ones, once
\* every kernel-source load has completed the buffers of the active
\* generation, particleSystem.particleCount and the count a tick dispatches
\* and draws all equal the count requested last.
C23_BurstEndsOnLatestCount ==
    (pending = NoPending /\ listeners.count >= 2) =>
        /\ particleSystem.particleCount = sliders.count
        /\ \A b \in {particleSystem.buffers.position,
                      particleSystem.buffers.velocity,
                      particleSystem.buffers.color} :
              /\ b # 0
              /\ ~gpuBuffers[b].destroyed
              /\ gpuBuffers[b].size = sliders.count * 3 * FloatBytes
        /\ <<particleSystem.bindGroups.compute.b0,
              particleSystem.bindGroups.compute.b1,
              particleSystem.bindGroups.compute.b2>> =
           <<particleSystem.buffers.position,
             particleSystem.buffers.velocity,
             particleSystem.buffers.color>>
        /\ <<particleSystem.bindGroups.render.b0,
              particleSystem.bindGroups.render.b2>> =
           <<particleSystem.buffers.position, particleSystem.buffers.color>>
        /\ DispatchCount(particleSystem) = sliders.count
        /\ Workgroups(DispatchCount(particleSystem)) * WorkgroupSize
              >= sliders.count

C23_Witness ==
    /\ pending = NoPending
    /\ phase = "started"
    /\ events = 2
    /\ listeners.count = 4
    /\ now = 0
    /\ nextFrameId = 3
    /\ particleSystem.particleCount = 2048
    /\ particleSystem.running
    /\ \E b \in 1..Len(gpuBuffers) :
          /\ gpuBuffers[b].destroyed
          /\ gpuBuffers[b].kind = "position"
          /\ gpuBuffers[b].size = 100 * 3 * FloatBytes

====
